---- MODULE Spec2Model ----
(***************************************************************************)
(* A model of plex_organize.py: the term normaliser (sortable_term), the   *)
(* quality predicate (check_quality_requirements), the playlist sorter     *)
(* (sort_playlist) and the playlist upgrader (upgrade_playlist).           *)
(*                                                                         *)
(* Python strings are modelled as sequences of characters; a character is  *)
(* a one-symbol token ("a", " ", "&", ...) whose code point is Code(c).    *)
(* Two characters outside ASCII are carried by name: "e_acute" (U+00E9)    *)
(* and "euro" (U+20AC).                                                    *)
(***************************************************************************)
EXTENDS Integers, Sequences, FiniteSets, TLC

VARIABLES
    pc,            \* position of the running operation
    term,          \* sortable_term: the argument
    norm1,         \* sortable_term(term)
    norm2,         \* sortable_term(sortable_term(term))
    config,        \* what config.get() returns for upgrade.force_all, upgrade.force_lossless
    probe,         \* check_quality_requirements: the media of the track examined
    meets,         \* check_quality_requirements: the value returned
    playlistType,  \* playlist.playlistType
    entries,       \* entries[e]: the library track held by playlist item e
    playlist,      \* the selected playlist: its items, in their current order
    new_playlist,  \* the "Copy of" playlist: whether it was created, and its items
    keyspec,       \* sort_playlist: the four sort keys and sort_reverse
    duplicate,     \* sort_playlist, upgrade_playlist: the duplicate argument
    items,         \* the local list `items`
    raised,        \* whether an exception left the operation
    previous_item, \* sort_playlist: the loop's previous_item (0 for None)
    simple_mode,   \* upgrade_playlist: the simple_mode argument
    dry,           \* upgrade_playlist: the dry argument
    done,          \* upgrade_playlist: how many items the loop has examined
    item,          \* upgrade_playlist: the loop's item (0 before the first)
    library,       \* the audio tracks server.library.search() can find
    search_results,   \* upgrade_playlist: server.library.search() for that item
    replacements,     \* upgrade_playlist: the filtered and sorted candidates
    items_to_remove,
    items_to_add,
    items_ommited,
    choices,       \* question: the choices of the last prompt shown
    answer         \* question: the position the chooser picked in that prompt

normVars == <<term, norm1, norm2>>
qualVars == <<config, probe, meets>>
sortVars == <<playlistType, entries, playlist, new_playlist, keyspec, duplicate,
              items, raised, previous_item>>

upVars == <<simple_mode, dry, done, item, library, search_results, replacements,
            items_to_remove, items_to_add, items_ommited, choices, answer>>

vars == <<pc, normVars, qualVars, sortVars, upVars>>

(***************************************************************************)
(* Bounds of the model.                                                    *)
(***************************************************************************)
MaxTermLen == 5

----------------------------------------------------------------------------
(***************************************************************************)
(* Python values: None, str, int and datetime.datetime.  A str is a        *)
(* sequence of characters, an int is itself, and a datetime is carried by  *)
(* its month number (the other components are the same for every value).   *)
(***************************************************************************)
None == [type |-> "NoneType", s |-> <<>>, n |-> 0]

Str(chars) == [type |-> "str", s |-> chars, n |-> 0]

IntVal(k) == [type |-> "int", s |-> <<>>, n |-> k]

Datetime(month) == [type |-> "datetime", s |-> <<>>, n |-> month]

\* bool(v): None, "" and 0 are false, every other value is true.
PyBool(v) ==
    CASE v.type = "NoneType" -> FALSE
      [] v.type = "str" -> v.s # <<>>
      [] v.type = "int" -> v.n # 0
      [] OTHER -> TRUE

----------------------------------------------------------------------------
(***************************************************************************)
(* Strings.                                                                *)
(***************************************************************************)

\* Code points of the characters the model uses (Python compares str values
\* code point by code point).
Code(c) ==
    CASE c = " " -> 32
      [] c = "&" -> 38
      [] c = "-" -> 45
      [] c = "." -> 46
      [] c = "0" -> 48
      [] c = "1" -> 49
      [] c = "2" -> 50
      [] c = "A" -> 65
      [] c = "B" -> 66
      [] c = "E" -> 69
      [] c = "R" -> 82
      [] c = "U" -> 85
      [] c = "a" -> 97
      [] c = "b" -> 98
      [] c = "c" -> 99
      [] c = "d" -> 100
      [] c = "e" -> 101
      [] c = "n" -> 110
      [] c = "r" -> 114
      [] c = "u" -> 117
      [] c = "e_acute" -> 233
      [] c = "euro" -> 8364

\* str.lower(), per character.
LowerChar(c) ==
    CASE c = "A" -> "a"
      [] c = "B" -> "b"
      [] c = "E" -> "e"
      [] c = "R" -> "r"
      [] c = "U" -> "u"
      [] OTHER -> c

\* unidecode(), per character: ASCII is kept, U+00E9 becomes "e" and U+20AC
\* becomes "EUR".
UnidecodeChar(c) ==
    CASE c = "e_acute" -> <<"e">>
      [] c = "euro" -> <<"E", "U", "R">>
      [] OTHER -> <<c>>

RECURSIVE Flatten(_)
Flatten(ss) ==
    IF ss = <<>> THEN <<>> ELSE Head(ss) \o Flatten(Tail(ss))

Lower(s) == [i \in 1..Len(s) |-> LowerChar(s[i])]

Unidecode(s) == Flatten([i \in 1..Len(s) |-> UnidecodeChar(s[i])])

\* str.split(" "): every single space separates, so "a  b" has an empty word.
RECURSIVE Split(_)
Split(s) ==
    IF \A i \in 1..Len(s) : s[i] # " "
    THEN <<s>>
    ELSE LET k == CHOOSE i \in 1..Len(s) :
                      s[i] = " " /\ \A j \in 1..(i - 1) : s[j] # " "
         IN  <<SubSeq(s, 1, k - 1)>> \o Split(SubSeq(s, k + 1, Len(s)))

\* " ".join(words)
RECURSIVE Join(_)
Join(ws) ==
    IF ws = <<>> THEN <<>>
    ELSE IF Len(ws) = 1 THEN ws[1]
    ELSE ws[1] \o <<" ">> \o Join(Tail(ws))

\* str.replace("&", "and")
ReplaceAmpersand(s) ==
    Flatten([i \in 1..Len(s) |-> IF s[i] = "&" THEN <<"a", "n", "d">> ELSE <<s[i]>>])

\* The characters of the class re.sub() deletes, among those the model uses.
Punctuation == {"."}

IsPunctuation(c) == c \in Punctuation

\* re.sub(r"[*.:,;...]", "", term)
RemovePunctuation(s) == SelectSeq(s, LAMBDA c : ~IsPunctuation(c))

\* str.strip()
RECURSIVE Strip(_)
Strip(s) ==
    IF s = <<>> THEN s
    ELSE IF s[1] = " " THEN Strip(Tail(s))
    ELSE IF s[Len(s)] = " " THEN Strip(SubSeq(s, 1, Len(s) - 1))
    ELSE s

\* The list `articles` of sortable_term.
articles ==
    { <<"d","i","e">>, <<"d","e","r">>, <<"d","a","s">>, <<"e","i","n">>,
      <<"e","i","n","e">>,
      <<"t","h","e">>, <<"a">>, <<"a","n">>,
      <<"e","l">>, <<"l","a">>, <<"l","o","s">>, <<"l","a","s">>, <<"u","n">>,
      <<"u","n","a">>, <<"u","n","o","s">>, <<"u","n","a","s">>,
      <<"l","e">>, <<"l","e","s">>, <<"u","n","e">>, <<"d","e","s">>,
      <<"i","l">>, <<"l","o">>, <<"i">>, <<"g","l","i">>, <<"u","n","o">> }

\* The article step without its len(words) > 1 test.
DropArticleMissingLenCheck(s) ==
    LET words == Split(s)
    IN  IF words[1] \in articles THEN Join(Tail(words)) ELSE s

\* words.pop(0); term = " ".join(words), when the first of several words is
\* an article.
DropArticle(s) ==
    LET words == Split(s)
    IN  IF Len(words) > 1 /\ words[1] \in articles THEN Join(Tail(words)) ELSE s

\* datetime.isoformat(): zero-padded, so that the strings order as the dates.
Digit(k) == CASE k = 0 -> "0" [] k = 1 -> "1" [] k = 2 -> "2"

isoformat(month) == <<Digit(month \div 10), Digit(month % 10)>>

\* sortable_term(term).  A value that is neither a datetime nor a str has no
\* lower(): the call raises AttributeError, carried as raised = TRUE.
sortable_term(v) ==
    IF v.type = "datetime"
    THEN [raised |-> FALSE, s |-> isoformat(v.n)]
    ELSE IF v.type = "str"
    THEN [raised |-> FALSE,
          s |-> Strip(RemovePunctuation(ReplaceAmpersand(DropArticle(Unidecode(Lower(v.s))))))]
    ELSE [raised |-> TRUE, s |-> <<>>]

\* Lexicographic comparison of two str values.
RECURSIVE StrLess(_, _)
StrLess(s, t) ==
    IF t = <<>> THEN FALSE
    ELSE IF s = <<>> THEN TRUE
    ELSE IF Code(s[1]) < Code(t[1]) THEN TRUE
    ELSE IF Code(s[1]) > Code(t[1]) THEN FALSE
    ELSE StrLess(Tail(s), Tail(t))

----------------------------------------------------------------------------
(***************************************************************************)
(* sortable_term applied once and twice to a bounded string.               *)
(***************************************************************************)

\* The characters the terms are drawn from.
TermAlphabet == {"a", "A", " ", "&", ".", "e_acute", "euro"}

Terms == UNION { [1..n -> TermAlphabet] : n \in 0..MaxTermLen }

NormalizeIdle ==
    /\ term = <<>>
    /\ norm1 = <<>>
    /\ norm2 = <<>>

QualityIdle ==
    /\ config = [force_all |-> None, force_lossless |-> None]
    /\ probe = [audioCodec |-> "mp3", bitrate |-> 0]
    /\ meets = FALSE

SortIdle ==
    /\ playlistType = "audio"
    /\ entries = <<>>
    /\ playlist = <<>>
    /\ new_playlist = [created |-> FALSE, items |-> <<>>]
    /\ keyspec = [sort_key |-> "title", backup_sort_key |-> "title",
                  secondary_sort_key |-> "title", backup_secondary_sort_key |-> "title",
                  sort_reverse |-> FALSE]
    /\ duplicate = FALSE
    /\ items = <<>>
    /\ raised = FALSE
    /\ previous_item = 0

UpgradeIdle ==
    /\ simple_mode = FALSE
    /\ dry = FALSE
    /\ done = 0
    /\ item = 0
    /\ library = {}
    /\ search_results = <<>>
    /\ replacements = <<>>
    /\ items_to_remove = <<>>
    /\ items_to_add = <<>>
    /\ items_ommited = <<>>
    /\ choices = <<>>
    /\ answer = 0

InitNormalize ==
    /\ pc = "term"
    /\ term \in Terms
    /\ norm1 = <<>>
    /\ norm2 = <<>>
    /\ QualityIdle
    /\ SortIdle
    /\ UpgradeIdle

\* norm1 = sortable_term(term)
NormalizeOnce ==
    /\ pc = "term"
    /\ norm1' = sortable_term(Str(term)).s
    /\ pc' = "once"
    /\ UNCHANGED <<term, norm2, qualVars, sortVars, upVars>>

\* norm2 = sortable_term(norm1)
NormalizeTwice ==
    /\ pc = "once"
    /\ norm2' = sortable_term(Str(norm1)).s
    /\ pc' = "twice"
    /\ UNCHANGED <<term, norm1, qualVars, sortVars, upVars>>

NextNormalize == NormalizeOnce \/ NormalizeTwice

SpecNormalize == InitNormalize /\ [][NextNormalize]_vars

\* A string sortable_term leaves as it is: no upper-case letter, and not an
\* article followed by a space.
HasLeadingArticle(s) == Len(Split(s)) > 1 /\ Split(s)[1] \in articles

HasUpper(s) == \E i \in 1..Len(s) : LowerChar(s[i]) # s[i]

\* C4 (as stated): sortable_term(sortable_term(x)) = sortable_term(x) for
\* every string x.
C4_Idempotent == pc = "twice" => norm2 = norm1

\* C4 (amended): sortable_term(sortable_term(x)) = sortable_term(x) exactly
\* when sortable_term(x) neither starts with an article followed by a space
\* nor holds an upper-case letter left by the transliteration.
C4_IdempotentUnlessArticleExposed ==
    pc = "twice" => ((norm2 = norm1) <=> (~HasLeadingArticle(norm1) /\ ~HasUpper(norm1)))

\* C4 witness: a leading article was dropped, and the second application
\* changes nothing.
C4_Witness ==
    /\ pc = "twice"
    /\ HasLeadingArticle(Unidecode(Lower(term)))
    /\ norm1 # <<>>
    /\ norm2 = norm1

----------------------------------------------------------------------------
(***************************************************************************)
(* check_quality_requirements on one track under one configuration.        *)
(***************************************************************************)

\* What PlexConfig.get() can return for a key of config.ini: None when the
\* key is absent, else the text written after the "=" sign.
ConfigValues ==
    {None, Str(<<>>), Str(<<"t", "r", "u", "e">>), Str(<<"f", "a", "l", "s", "e">>)}

Codecs == {"mp3", "aac", "flac", "alac", "opus"}

Bitrates == {128, 255, 256, 319, 320, 1000}

\* The quality test with the two lossless codecs read as one.
check_quality_requirements_flac_only(cfg, media) ==
    IF PyBool(cfg.force_all) THEN FALSE
    ELSE IF PyBool(cfg.force_lossless) THEN media.audioCodec \in {"flac"}
    ELSE ~(\/ media.audioCodec = "mp3" /\ media.bitrate < 320
           \/ media.audioCodec = "aac" /\ media.bitrate < 256)

\* The quality test with the thresholds compared by <= instead of <.
check_quality_requirements_inclusive(cfg, media) ==
    IF PyBool(cfg.force_all) THEN FALSE
    ELSE IF PyBool(cfg.force_lossless) THEN media.audioCodec \in {"alac", "flac"}
    ELSE ~(\/ media.audioCodec = "mp3" /\ media.bitrate <= 320
           \/ media.audioCodec = "aac" /\ media.bitrate <= 256)

\* check_quality_requirements(item), with item.media[0] as `media` and the
\* module-level config as `cfg`.
check_quality_requirements(cfg, media) ==
    IF PyBool(cfg.force_all) THEN FALSE
    ELSE IF PyBool(cfg.force_lossless) THEN media.audioCodec \in {"alac", "flac"}
    ELSE ~(\/ media.audioCodec = "mp3" /\ media.bitrate < 320
           \/ media.audioCodec = "aac" /\ media.bitrate < 256)

InitQuality ==
    /\ pc = "track"
    /\ config \in [force_all : ConfigValues, force_lossless : ConfigValues]
    /\ probe \in [audioCodec : Codecs, bitrate : Bitrates]
    /\ meets = FALSE
    /\ NormalizeIdle
    /\ SortIdle
    /\ UpgradeIdle

CheckQuality ==
    /\ pc = "track"
    /\ meets' = check_quality_requirements(config, probe)
    /\ pc' = "checked"
    /\ UNCHANGED <<normVars, config, probe, sortVars, upVars>>

NextQuality == CheckQuality

SpecQuality == InitQuality /\ [][NextQuality]_vars

\* How a configuration file states a boolean setting.
SetTrue(v) == v = Str(<<"t", "r", "u", "e">>)

SetFalse(v) == v \in {None, Str(<<>>), Str(<<"f", "a", "l", "s", "e">>)}

\* C5: with force_all set to true no track meets the requirements, and with
\* force_all set to false (left out, left empty, or written "false") the
\* result is the one the other rules give.
C5_ForceAllAsConfigured ==
    pc = "checked" =>
        /\ SetTrue(config.force_all) => meets = FALSE
        /\ SetFalse(config.force_all) =>
               meets = check_quality_requirements([config EXCEPT !.force_all = None], probe)

\* C6: when the code reads force_all as false and force_lossless as true, a
\* track meets the requirements exactly when its codec is alac or flac,
\* whatever its bitrate.
C6_LosslessOnly ==
    (pc = "checked" /\ ~PyBool(config.force_all) /\ PyBool(config.force_lossless))
        => (meets <=> probe.audioCodec \in {"alac", "flac"})

\* C6 witness: an mp3 track at its threshold is rejected, and an alac track
\* below every threshold would be accepted, under force_lossless.
C6_Witness ==
    /\ pc = "checked"
    /\ ~PyBool(config.force_all) /\ PyBool(config.force_lossless)
    /\ probe = [audioCodec |-> "mp3", bitrate |-> 320]
    /\ meets = FALSE

\* C7: when the code reads both settings as false, a track fails exactly
\* when it is mp3 below 320 or aac below 256; 320 and 256 themselves pass.
C7_Thresholds ==
    (pc = "checked" /\ ~PyBool(config.force_all) /\ ~PyBool(config.force_lossless))
        => (meets <=> ~(\/ probe.audioCodec = "mp3" /\ probe.bitrate < 320
                        \/ probe.audioCodec = "aac" /\ probe.bitrate < 256))

\* C7 witness: mp3 at exactly 320 passes.
C7_Witness ==
    /\ pc = "checked"
    /\ ~PyBool(config.force_all) /\ ~PyBool(config.force_lossless)
    /\ probe = [audioCodec |-> "mp3", bitrate |-> 320]
    /\ meets = TRUE

----------------------------------------------------------------------------
(***************************************************************************)
(* The library: the tracks and videos the server holds.  Tracks 1..5 and 9 *)
(* are audio, 6..8 are video.  originalTitle is the track artist (None     *)
(* when the track has none), grandparentTitle the album artist,            *)
(* parentTitle the album.                                                  *)
(***************************************************************************)
Track(title, titleSort, originalTitle, grandparentTitle, parentTitle, duration, audioCodec, bitrate) ==
    [title |-> title, titleSort |-> titleSort, originalTitle |-> originalTitle,
     grandparentTitle |-> grandparentTitle, parentTitle |-> parentTitle,
     duration |-> duration, year |-> None, originallyAvailableAt |-> None,
     media |-> [audioCodec |-> audioCodec, bitrate |-> bitrate]]

Video(title, titleSort, year, originallyAvailableAt, duration) ==
    [title |-> title, titleSort |-> titleSort, originalTitle |-> None,
     grandparentTitle |-> None, parentTitle |-> None,
     duration |-> duration, year |-> year,
     originallyAvailableAt |-> originallyAvailableAt,
     media |-> [audioCodec |-> "aac", bitrate |-> 0]]

Library ==
    << Track(Str(<<"b">>), Str(<<"b">>), None, Str(<<"B">>),
             Str(<<"a", " ", "b">>), IntVal(2), "mp3", 128),
       Track(Str(<<"A", " ", "b">>), Str(<<"b">>), Str(<<"a", "b">>), Str(<<"a">>),
             Str(<<"B">>), IntVal(1), "mp3", 320),
       Track(Str(<<"a">>), Str(<<"a">>), Str(<<"B", "b">>), Str(<<"B">>),
             Str(<<"b">>), IntVal(2), "mp3", 320),
       Track(Str(<<"A">>), Str(<<"a">>), None, Str(<<"b">>),
             Str(<<"A">>), IntVal(3), "flac", 1000),
       Track(Str(<<"b">>), Str(<<"b">>), Str(<<"a">>), Str(<<"a">>),
             Str(<<"e_acute">>), IntVal(1), "aac", 255),
       Video(Str(<<"b">>), Str(<<"b">>), IntVal(2), Datetime(10), IntVal(2)),
       Video(Str(<<"A">>), Str(<<"a">>), IntVal(1), None, IntVal(1)),
       Video(Str(<<"a", " ", "b">>), Str(<<"b">>), IntVal(2), Datetime(2), IntVal(1)),
       Track(Str(<<"b">>), Str(<<"b">>), Str(<<"B">>), Str(<<"B">>),
             Str(<<"b">>), IntVal(2), "mp3", 0),
       Track(Str(<<"A">>), Str(<<"a">>), None, Str(<<"b">>),
             Str(<<"A">>), IntVal(3), "flac", 1000) >>

\* media[0].bitrate = 0 stands for a bitrate Plex does not know (None): the
\* test `r.media[0].bitrate and ...` rejects both alike.
SearchableTracks == {t \in DOMAIN Library : Library[t].year = None}

\* The tracks a playlist is made of: their bitrate is known.
AudioTracks == {t \in SearchableTracks : Library[t].media.bitrate # 0}

VideoTracks == DOMAIN Library \ SearchableTracks

\* getattr(x, key) for playlist item x.
getattr(x, key) == Library[entries[x]][key]

----------------------------------------------------------------------------
(***************************************************************************)
(* choose_sorting_method: the tuples it can return.                        *)
(***************************************************************************)
Choice(key, backup_key, secondary_key, secondary_backup_key, reverse) ==
    [sort_key |-> key, backup_sort_key |-> backup_key,
     secondary_sort_key |-> secondary_key,
     backup_secondary_sort_key |-> secondary_backup_key, sort_reverse |-> reverse]

choose_sorting_method(playlist_type) ==
    {Choice("shuffle", "shuffle", "shuffle", "shuffle", FALSE)}
    \cup UNION {
        { Choice("title", "title", "originalTitle", "grandparentTitle", r),
          Choice("titleSort", "titleSort", "originalTitle", "grandparentTitle", r),
          Choice("duration", "duration", "title", "duration", r) }
        \cup (IF playlist_type = "audio"
               THEN { Choice("originalTitle", "grandparentTitle", "title", "originalTitle", r),
                      Choice("grandparentTitle", "grandparentTitle", "title", "grandparentTitle", r),
                      Choice("parentTitle", "parentTitle", "originalTitle", "grandparentTitle", r) }
               ELSE { Choice("year", "year", "title", "year", r),
                      Choice("originallyAvailableAt", "originallyAvailableAt", "title",
                             "originallyAvailableAt", r) })
        : r \in BOOLEAN }

\* sort_playlist(sort_key="shuffle", sort_reverse=True), the other parameters
\* at their defaults.
ShuffleCalls == {Choice("shuffle", "title", "title", "title", TRUE)}

----------------------------------------------------------------------------
(***************************************************************************)
(* sort_playlist.                                                          *)
(***************************************************************************)
MaxPlaylistLen == 3

\* The value the key lambda of sorted() gives for item x.
SortKey(x, key, backup_key) ==
    IF getattr(x, key) # None
    THEN sortable_term(getattr(x, key))
    ELSE sortable_term(getattr(x, backup_key))

\* sorted(list, key=..., reverse=...) with the keys already computed:
\* keys[i] is the key of list[i]; the keys are all int (numeric) or all str.
\* The sort is stable, and with reverse=True equal keys still keep their
\* original order.
SortedBy(list, keys, numeric, reverse) ==
    LET n == Len(list)
        Less(a, b) == IF numeric THEN a < b ELSE StrLess(a, b)
        Before(j, i) ==
            \/ IF reverse THEN Less(keys[i], keys[j]) ELSE Less(keys[j], keys[i])
            \/ keys[j] = keys[i] /\ j < i
        Rank(i) == 1 + Cardinality({j \in 1..n : Before(j, i)})
    IN  [p \in 1..n |-> list[CHOOSE i \in 1..n : Rank(i) = p]]

\* sorted() on str keys.
Sorted(list, keys, reverse) == SortedBy(list, keys, FALSE, reverse)

\* The keys the key lambda gives for the items of the list, in order.
RECURSIVE SortKeys(_, _, _)
SortKeys(list, key, backup_key) ==
    IF list = <<>> THEN <<>>
    ELSE <<SortKey(Head(list), key, backup_key)>> \o SortKeys(Tail(list), key, backup_key)

\* One sorted() call of sort_playlist: the list, or the exception of the
\* key lambda.
SortPass(list, key, backup_key, reverse) ==
    LET ks == SortKeys(list, key, backup_key)
    IN  IF \E i \in 1..Len(list) : ks[i].raised
        THEN [raised |-> TRUE, list |-> list]
        ELSE [raised |-> FALSE,
              list |-> Sorted(list, [i \in 1..Len(list) |-> ks[i].s], reverse)]

\* random.shuffle(list): every ordering of the list.
Shuffles(list) ==
    LET n == Len(list)
    IN  { [i \in 1..n |-> list[f[i]]] : f \in Permutations(1..n) }

\* The sorting block without its secondary pass.
SortedItemsPrimaryOnly(list, ks, type) ==
    IF ks.sort_key = "shuffle"
    THEN {[raised |-> FALSE, list |-> l] : l \in Shuffles(list)}
    ELSE {SortPass(list, ks.sort_key, ks.backup_sort_key, ks.sort_reverse)}

\* The sorting block with a shuffle that draws every position independently
\* (random.choice per position) when sort_reverse is set.
SortedItemsSampled(list, ks, type) ==
    IF ks.sort_key = "shuffle" /\ ks.sort_reverse
    THEN {[raised |-> FALSE, list |-> [i \in 1..Len(list) |-> list[f[i]]]] :
            f \in [1..Len(list) -> 1..Len(list)]}
    ELSE SortedItemsPrimaryOnly(list, ks, type)

\* The sorting block of sort_playlist: the values `items` can have after
\* it, or the exception.
SortedItems(list, ks, type) ==
    IF ks.sort_key = "shuffle"
    THEN {[raised |-> FALSE, list |-> l] : l \in Shuffles(list)}
    ELSE LET second ==
                 IF ks.secondary_sort_key # "" /\ type = "audio"
                 THEN SortPass(list, ks.secondary_sort_key,
                               ks.backup_secondary_sort_key, ks.sort_reverse)
                 ELSE [raised |-> FALSE, list |-> list]
         IN  IF second.raised
             THEN {second}
             ELSE {SortPass(second.list, ks.sort_key, ks.backup_sort_key, ks.sort_reverse)}

\* A moveItem that puts the item in front of `after`.
moveItemBefore(order, it, after) ==
    LET rest == SelectSeq(order, LAMBDA e : e # it)
        k == IF after = 0 THEN 0 ELSE (CHOOSE i \in 1..Len(rest) : rest[i] = after) - 1
    IN  SubSeq(rest, 1, k) \o <<it>> \o SubSeq(rest, k + 1, Len(rest))

\* Playlist.moveItem(item, after): the item is taken out and put back
\* behind `after`, or at the front when after is None (0).
moveItem(order, it, after) ==
    LET rest == SelectSeq(order, LAMBDA e : e # it)
        k == IF after = 0 THEN 0 ELSE CHOOSE i \in 1..Len(rest) : rest[i] = after
    IN  SubSeq(rest, 1, k) \o <<it>> \o SubSeq(rest, k + 1, Len(rest))

\* The playlists a run starts from: items 1..n, each holding a library track
\* of the playlist's type.
InitPlaylist ==
    /\ playlistType \in {"audio", "video"}
    /\ \E n \in 1..MaxPlaylistLen :
          /\ entries \in [1..n -> IF playlistType = "audio" THEN AudioTracks ELSE VideoTracks]
          /\ playlist = [e \in 1..n |-> e]
    /\ new_playlist = [created |-> FALSE, items |-> <<>>]

InitSort ==
    /\ pc = "sort"
    /\ InitPlaylist
    /\ keyspec \in choose_sorting_method(playlistType) \cup ShuffleCalls
    /\ duplicate \in BOOLEAN
    /\ items = <<>>
    /\ raised = FALSE
    /\ previous_item = 0
    /\ NormalizeIdle
    /\ QualityIdle
    /\ UpgradeIdle

\* items = playlist.items() and the sorting block.
SortItems ==
    /\ pc = "sort"
    /\ \E r \in SortedItems(playlist, keyspec, playlistType) :
          /\ raised' = r.raised
          /\ items' = r.list
          /\ pc' = IF r.raised THEN "raised" ELSE "sorted"
    /\ UNCHANGED <<normVars, qualVars, upVars, playlistType, entries, playlist,
                   new_playlist, keyspec, duplicate, previous_item>>

\* if duplicate: Playlist.create(items=items); return new_playlist
CreateSortedCopy ==
    /\ pc = "sorted"
    /\ duplicate
    /\ new_playlist' = [created |-> TRUE, items |-> items]
    /\ pc' = "done"
    /\ UNCHANGED <<normVars, qualVars, upVars, playlistType, entries, playlist, keyspec,
                   duplicate, items, raised, previous_item>>

\* The index in `items` the for loop has reached.
NextIndex ==
    IF previous_item = 0 THEN 1
    ELSE 1 + CHOOSE i \in 1..Len(items) : items[i] = previous_item

\* One turn of the loop: playlist.moveItem(item, after=previous_item).
MoveItem ==
    /\ pc \in {"sorted", "moving"}
    /\ ~duplicate
    /\ NextIndex <= Len(items)
    /\ playlist' = moveItem(playlist, items[NextIndex], previous_item)
    /\ previous_item' = items[NextIndex]
    /\ pc' = "moving"
    /\ UNCHANGED <<normVars, qualVars, upVars, playlistType, entries, new_playlist,
                   keyspec, duplicate, items, raised>>

\* The loop is over: return playlist.
FinishSort ==
    /\ pc \in {"sorted", "moving"}
    /\ ~duplicate
    /\ NextIndex > Len(items)
    /\ pc' = "done"
    /\ UNCHANGED <<normVars, qualVars, sortVars, upVars>>

NextSort == SortItems \/ CreateSortedCopy \/ MoveItem \/ FinishSort

SpecSort == InitSort /\ [][NextSort]_vars

\* playlist.items() as sort_playlist found it: the items in their first order.
OriginalItems == [e \in 1..Len(entries) |-> e]

PrimaryValue(x) == SortKey(x, keyspec.sort_key, keyspec.backup_sort_key).s

SecondaryValue(x) ==
    SortKey(x, keyspec.secondary_sort_key, keyspec.backup_secondary_sort_key).s

\* a may stand before b in the chosen direction.
InDirection(a, b) == IF keyspec.sort_reverse THEN ~StrLess(a, b) ELSE ~StrLess(b, a)

\* The sorting block has just returned.
Sorted_ == pc = "sorted"

\* C1: an audio playlist sorted in normal mode is ordered by the normalized
\* primary value (the fallback key's value when the primary is None) in the
\* chosen direction, and items with equal primary values stand in the order
\* of their normalized secondary values in that same direction.
C1_PrimaryThenSecondary ==
    (Sorted_ /\ playlistType = "audio" /\ keyspec.sort_key # "shuffle") =>
        \A i, j \in 1..Len(items) :
            i < j =>
                /\ InDirection(PrimaryValue(items[i]), PrimaryValue(items[j]))
                /\ PrimaryValue(items[i]) = PrimaryValue(items[j])
                      => InDirection(SecondaryValue(items[i]), SecondaryValue(items[j]))

\* C1 witness: a descending sort put two items with equal primary values
\* and different secondary values in the opposite of their playlist order,
\* the primary value of one of them taken from the fallback key.
C1_Witness ==
    /\ pc = "sorted"
    /\ playlistType = "audio"
    /\ keyspec.sort_key # "shuffle"
    /\ keyspec.sort_reverse
    /\ \E i, j \in 1..Len(items) :
          /\ i < j
          /\ items[i] > items[j]
          /\ PrimaryValue(items[i]) = PrimaryValue(items[j])
          /\ SecondaryValue(items[i]) # SecondaryValue(items[j])
          /\ getattr(items[i], keyspec.sort_key) = None

\* C2: sorting never raises, whatever choose_sorting_method returned.
C2_NeverRaises == pc # "raised"

\* C3: the sorted or shuffled list is a permutation of the playlist's items;
\* and a shuffle can give every permutation, whatever the other keys and
\* the direction are.
C3_Permutation ==
    Sorted_ =>
        /\ Len(items) = Len(entries)
        /\ \A e \in 1..Len(entries) : \E i \in 1..Len(items) : items[i] = e
        /\ keyspec.sort_key = "shuffle" =>
               SortedItems(OriginalItems, keyspec, playlistType)
                   = {[raised |-> FALSE, list |-> l] : l \in Shuffles(OriginalItems)}

\* C3 witness: a shuffle, called with other keys and descending, that moved
\* an item.
C3_Witness ==
    /\ pc = "sorted"
    /\ keyspec.sort_key = "shuffle"
    /\ keyspec.secondary_sort_key # "shuffle"
    /\ keyspec.sort_reverse
    /\ Len(items) = MaxPlaylistLen
    /\ items # OriginalItems

----------------------------------------------------------------------------
(***************************************************************************)
(* upgrade_playlist.                                                       *)
(***************************************************************************)
MaxResults == 2

\* artist(item): the track artist, or the album artist when there is none.
artist(t) ==
    IF PyBool(Library[t].originalTitle)
    THEN Library[t].originalTitle.s
    ELSE Library[t].grandparentTitle.s

\* str.casefold(), which on the characters of the model is lower().
casefold(s) == Lower(s)

\* needle in hay
Contains(hay, needle) ==
    \E k \in 0..(Len(hay) - Len(needle)) : SubSeq(hay, k + 1, k + Len(needle)) = needle

bitrate(t) == Library[t].media.bitrate

\* duration_to_str(duration): minutes and seconds of a duration in ms.
duration_to_str(duration) == <<(duration \div 1000) \div 60, (duration \div 1000) % 60>>

\* audio_to_str(item): the parts of the text, in order.
audio_to_str(t) ==
    <<artist(t), Library[t].title.s, Library[t].parentTitle.s,
      duration_to_str(Library[t].duration.n), Library[t].media.audioCodec, bitrate(t)>>

\* The key of the first sorted() call on the candidates.
ArtistKey(r) ==
    IF Library[r].originalTitle # None
    THEN Library[r].originalTitle.s
    ELSE Library[r].grandparentTitle.s

\* The two sorted() calls with the bitrate sort not reversed.
RankAscending(list) ==
    LET byArtist == SortedBy(list, [i \in 1..Len(list) |-> ArtistKey(list[i])], FALSE, FALSE)
    IN  SortedBy(byArtist, [i \in 1..Len(list) |-> bitrate(byArtist[i])], TRUE, FALSE)

\* The two sorted() calls on the candidates: by artist, then by bitrate
\* with reverse=True.
RankCandidates(list) ==
    LET byArtist == SortedBy(list, [i \in 1..Len(list) |-> ArtistKey(list[i])], FALSE, FALSE)
    IN  SortedBy(byArtist, [i \in 1..Len(list) |-> bitrate(byArtist[i])], TRUE, TRUE)

\* The candidates kept with the artist test left out.
SurvivorsAnyArtist(t, results) ==
    SelectSeq(results, LAMBDA r : bitrate(r) # 0 /\ bitrate(r) > bitrate(t))

\* The two list comprehensions on search_results, for the track t of the
\* item: a higher, known bitrate and an artist that contains the item's.
Survivors(t, results) ==
    SelectSeq(SelectSeq(results, LAMBDA r : bitrate(r) # 0 /\ bitrate(r) > bitrate(t)),
              LAMBDA r : Contains(casefold(artist(r)), casefold(artist(t))))

\* `replacements` as the loop computes it from search_results.
Replacements(t, results) ==
    LET kept == Survivors(t, results) \o <<>>
    IN  RankCandidates(kept) \o <<>>

\* What server.library.search() can return: any short list of tracks of the
\* library, in any order and with repeats.
SearchResults == UNION { [1..n -> library] : n \in 0..MaxResults }

\* The choices question() shows: "None", one per item, and "Abort".
NoneChoice == [label |-> "None", str |-> <<>>]

AbortChoice == [label |-> "Abort", str |-> <<>>]

ItemChoice(t) == [label |-> "item", str |-> audio_to_str(t)]

\* The list `choices` of the prompt, in the order it is shown.
Choices(list, none_choice) ==
    (IF none_choice THEN <<NoneChoice>> ELSE <<>>)
    \o [i \in 1..Len(list) |-> ItemChoice(list[i])]
    \o <<AbortChoice>>

\* A string that is none of the choices.
UnknownChoice == [label |-> "unknown", str |-> <<>>]

\* The positions the chooser can pick in the prompt of question(); the
\* position after the last stands for an answer that was not offered.  A
\* list of one item is returned without a prompt (position 0).
Answers(list, none_choice) ==
    IF Len(list) = 1 THEN {0} ELSE 1..(Len(Choices(list, none_choice)) + 1)

\* answers["question"]: the string at the position picked.
Reply(shown, k) == IF k \in 1..Len(shown) THEN shown[k] ELSE UnknownChoice

\* A question() whose "Abort" returns None instead of calling sys.exit().
questionAbortReturnsNone(list, reply) ==
    IF Len(list) = 1
    THEN [exit |-> FALSE, value |-> list[1]]
    ELSE LET same == {i \in 1..Len(list) : ItemChoice(list[i]) = reply}
         IN  [exit |-> FALSE,
              value |-> IF same = {} THEN 0
                        ELSE list[CHOOSE i \in same : \A j \in same : i <= j]]

\* question(message, items, attr=audio_to_str, none_choice) when the prompt
\* answers `reply`: sys.exit(), or the value returned (0 for None).
question(list, reply) ==
    IF Len(list) = 1
    THEN [exit |-> FALSE, value |-> list[1]]
    ELSE IF reply = AbortChoice
    THEN [exit |-> TRUE, value |-> 0]
    ELSE LET same == {i \in 1..Len(list) : ItemChoice(list[i]) = reply}
         IN  [exit |-> FALSE,
              value |-> IF same = {} THEN 0
                        ELSE list[CHOOSE i \in same : \A j \in same : i <= j]]

\* The settings of the [upgrade] section the runs are made under.
UpgradeConfigs ==
    [force_all : {None}, force_lossless : {None, Str(<<"t", "r", "u", "e">>)}]

\* upgrade_playlist is called on a playlist of one track of known bitrate;
\* the library holds every audio track.
InitUpgrade ==
    /\ pc = "upgrade"
    /\ playlistType = "audio"
    /\ entries \in {<<t>> : t \in AudioTracks}
    /\ playlist = [e \in 1..Len(entries) |-> e]
    /\ library = SearchableTracks
    /\ new_playlist = [created |-> FALSE, items |-> <<>>]
    /\ config \in UpgradeConfigs
    /\ duplicate \in BOOLEAN
    /\ simple_mode \in BOOLEAN
    /\ dry \in BOOLEAN
    /\ keyspec = [sort_key |-> "title", backup_sort_key |-> "title",
                  secondary_sort_key |-> "title", backup_secondary_sort_key |-> "title",
                  sort_reverse |-> FALSE]
    /\ items = <<>>
    /\ raised = FALSE
    /\ previous_item = 0
    /\ done = 0
    /\ item = 0
    /\ search_results = <<>>
    /\ replacements = <<>>
    /\ items_to_remove = <<>>
    /\ items_to_add = <<>>
    /\ items_ommited = <<>>
    /\ choices = <<>>
    /\ answer = 0
    /\ probe = [audioCodec |-> "mp3", bitrate |-> 0]
    /\ meets = FALSE
    /\ NormalizeIdle

\* The playlist the run works on: the copy once it is created.
Target == IF new_playlist.created THEN new_playlist.items ELSE playlist

\* items = playlist.items(); with duplicate and not dry, the copy is created
\* and the run goes on with the copy and its items.
StartUpgrade ==
    /\ pc = "upgrade"
    /\ items' = playlist
    /\ new_playlist' = IF duplicate /\ ~dry
                       THEN [created |-> TRUE, items |-> playlist]
                       ELSE new_playlist
    /\ pc' = "loop"
    /\ UNCHANGED <<normVars, qualVars, upVars, playlistType, entries, playlist, keyspec,
                   duplicate, raised, previous_item>>

\* The item the loop examines next, and its track.
NextItem == items[done + 1]

NextTrack == entries[NextItem]

InLoop == pc = "loop" /\ done < Len(items)

\* The item meets the requirements: the else branch of the loop.
ItemMeetsQuality ==
    /\ InLoop
    /\ check_quality_requirements(config, Library[NextTrack].media)
    /\ item' = NextItem
    /\ done' = done + 1
    /\ UNCHANGED <<pc, normVars, qualVars, sortVars, simple_mode, dry, library,
                   search_results, replacements, items_to_remove, items_to_add,
                   items_ommited, choices, answer>>

\* The item fails and no candidate is left: it is omitted.
ItemWithoutCandidates ==
    /\ InLoop
    /\ ~check_quality_requirements(config, Library[NextTrack].media)
    /\ \E results \in SearchResults :
          /\ Replacements(NextTrack, results) = <<>>
          /\ search_results' = results
          /\ replacements' = <<>>
    /\ items_ommited' = Append(items_ommited, NextItem)
    /\ item' = NextItem
    /\ done' = done + 1
    /\ UNCHANGED <<pc, normVars, qualVars, sortVars, simple_mode, dry, library,
                   items_to_remove, items_to_add, choices, answer>>

\* Simple replacement mode with items_to_remove.append(item) left out.
ItemReplacedSimpleKeepsItem ==
    /\ InLoop
    /\ ~check_quality_requirements(config, Library[NextTrack].media)
    /\ simple_mode
    /\ \E results \in SearchResults :
          /\ Replacements(NextTrack, results) # <<>>
          /\ search_results' = results
          /\ replacements' = Replacements(NextTrack, results)
    /\ items_to_add' = Append(items_to_add, replacements'[1])
    /\ item' = NextItem
    /\ done' = done + 1
    /\ UNCHANGED <<pc, normVars, qualVars, sortVars, simple_mode, dry, library,
                   items_to_remove, items_ommited, choices, answer>>

\* Simple replacement mode: replacements[0] is taken.
ItemReplacedSimple ==
    /\ InLoop
    /\ ~check_quality_requirements(config, Library[NextTrack].media)
    /\ simple_mode
    /\ \E results \in SearchResults :
          /\ Replacements(NextTrack, results) # <<>>
          /\ search_results' = results
          /\ replacements' = Replacements(NextTrack, results)
    /\ items_to_add' = Append(items_to_add, replacements'[1])
    /\ items_to_remove' = Append(items_to_remove, NextItem)
    /\ item' = NextItem
    /\ done' = done + 1
    /\ UNCHANGED <<pc, normVars, qualVars, sortVars, simple_mode, dry, library,
                   items_ommited, choices, answer>>

\* Manual replacement mode: question() is asked; its value replaces the
\* item, None omits the item, and "Abort" ends the program.
ItemAskedManual ==
    /\ InLoop
    /\ ~check_quality_requirements(config, Library[NextTrack].media)
    /\ ~simple_mode
    /\ \E results \in SearchResults :
          /\ Replacements(NextTrack, results) # <<>>
          /\ search_results' = results
          /\ replacements' = Replacements(NextTrack, results)
    /\ item' = NextItem
    /\ \E k \in Answers(replacements', TRUE) :
          LET shown == Choices(replacements', TRUE)
              replacement == question(replacements', Reply(shown, k))
          IN  /\ choices' = IF Len(replacements') = 1 THEN choices ELSE shown
              /\ answer' = IF Len(replacements') = 1 THEN answer ELSE k
              /\ IF replacement.exit
                 THEN /\ pc' = "aborted"
                      /\ UNCHANGED <<done, items_to_add, items_to_remove, items_ommited>>
                 ELSE /\ pc' = pc
                      /\ done' = done + 1
                      /\ IF replacement.value # 0
                         THEN /\ items_to_add' = Append(items_to_add, replacement.value)
                              /\ items_to_remove' = Append(items_to_remove, NextItem)
                              /\ UNCHANGED items_ommited
                         ELSE /\ items_ommited' = Append(items_ommited, NextItem)
                              /\ UNCHANGED <<items_to_add, items_to_remove>>
    /\ UNCHANGED <<normVars, qualVars, sortVars, simple_mode, dry, library>>

\* The end of the loop with the modifications made whatever dry is.
EndLoopAlwaysModifies ==
    /\ pc = "loop"
    /\ done = Len(items)
    /\ pc' = "remove"
    /\ UNCHANGED <<normVars, qualVars, sortVars, upVars>>

\* The loop is over; a dry run returns here.
EndLoop ==
    /\ pc = "loop"
    /\ done = Len(items)
    /\ pc' = IF dry THEN "done" ELSE "remove"
    /\ UNCHANGED <<normVars, qualVars, sortVars, upVars>>

\* Playlist.removeItems(items): the items leave the playlist.
removeItems(order, gone) ==
    SelectSeq(order, LAMBDA e : \A k \in 1..Len(gone) : gone[k] # e)

\* if len(items_to_remove): playlist.removeItems(items_to_remove)
RemoveItems ==
    /\ pc = "remove"
    /\ IF new_playlist.created
       THEN /\ new_playlist' = [new_playlist EXCEPT
                                   !.items = removeItems(new_playlist.items, items_to_remove)]
            /\ UNCHANGED playlist
       ELSE /\ playlist' = removeItems(playlist, items_to_remove)
            /\ UNCHANGED new_playlist
    /\ pc' = "add"
    /\ UNCHANGED <<normVars, qualVars, upVars, playlistType, entries, keyspec, duplicate,
                   items, raised, previous_item>>

\* addItems applied to the playlist that was given, copy or not.
AddItemsToGivenPlaylist ==
    /\ pc = "add"
    /\ entries' = entries \o items_to_add
    /\ playlist' = playlist \o [k \in 1..Len(items_to_add) |-> Len(entries) + k]
    /\ pc' = "done"
    /\ UNCHANGED <<normVars, qualVars, upVars, playlistType, new_playlist, keyspec,
                   duplicate, items, raised, previous_item>>

\* if len(items_to_add): playlist.addItems(items_to_add): a new playlist item
\* for every track, at the end of the playlist.
AddItems ==
    /\ pc = "add"
    /\ LET n == Len(entries)
           added == [k \in 1..Len(items_to_add) |-> n + k]
       IN  /\ entries' = entries \o items_to_add
           /\ IF new_playlist.created
              THEN /\ new_playlist' = [new_playlist EXCEPT !.items = new_playlist.items \o added]
                   /\ UNCHANGED playlist
              ELSE /\ playlist' = playlist \o added
                   /\ UNCHANGED new_playlist
    /\ pc' = "done"
    /\ UNCHANGED <<normVars, qualVars, upVars, playlistType, keyspec, duplicate, items,
                   raised, previous_item>>

NextUpgrade ==
    \/ StartUpgrade
    \/ ItemMeetsQuality
    \/ ItemWithoutCandidates
    \/ ItemReplacedSimple
    \/ ItemAskedManual
    \/ EndLoop
    \/ RemoveItems
    \/ AddItems

SpecUpgrade == InitUpgrade /\ [][NextUpgrade]_vars

\* upgrade_playlist on playlists of several tracks, under the default
\* settings: an mp3 at 128 kbps, which fails and which two tracks of the
\* library can replace, and a flac, which passes.  The library search finds
\* an mp3 at 320 kbps and a flac.
MaxRunLen == 2

RunTracks == {1, 4}

RunLibrary == {2, 4}

InitRun ==
    /\ pc = "upgrade"
    /\ playlistType = "audio"
    /\ \E n \in 1..MaxRunLen :
          /\ entries \in [1..n -> RunTracks]
          /\ playlist = [e \in 1..n |-> e]
    /\ library = RunLibrary
    /\ new_playlist = [created |-> FALSE, items |-> <<>>]
    /\ config = [force_all |-> None, force_lossless |-> None]
    /\ duplicate \in BOOLEAN
    /\ simple_mode \in BOOLEAN
    /\ dry \in BOOLEAN
    /\ keyspec = [sort_key |-> "title", backup_sort_key |-> "title",
                  secondary_sort_key |-> "title", backup_secondary_sort_key |-> "title",
                  sort_reverse |-> FALSE]
    /\ items = <<>>
    /\ raised = FALSE
    /\ previous_item = 0
    /\ done = 0
    /\ item = 0
    /\ search_results = <<>>
    /\ replacements = <<>>
    /\ items_to_remove = <<>>
    /\ items_to_add = <<>>
    /\ items_ommited = <<>>
    /\ choices = <<>>
    /\ answer = 0
    /\ probe = [audioCodec |-> "mp3", bitrate |-> 0]
    /\ meets = FALSE
    /\ NormalizeIdle

SpecRun == InitRun /\ [][NextUpgrade]_vars

\* The menu of the program: the selected playlist is sorted or upgraded.
InitOrganize == InitSort \/ InitUpgrade

NextOrganize == NextSort \/ NextUpgrade

SpecOrganize == InitOrganize /\ [][NextOrganize]_vars

----------------------------------------------------------------------------
(***************************************************************************)
(* Properties of the replacement of one failing item.                      *)
(***************************************************************************)

\* The item examined last failed the quality requirements.
ItemFailed == item # 0 /\ ~check_quality_requirements(config, Library[entries[item]].media)

\* Track r has a known bitrate above that of track t and an artist that
\* contains the artist of t, letter case aside.
Qualifies(r, t) ==
    /\ Library[r].media.bitrate # 0
    /\ Library[r].media.bitrate > Library[t].media.bitrate
    /\ Contains(Lower(artist(r)), Lower(artist(t)))

\* The found tracks that qualify as a replacement of the item examined last.
Qualified ==
    {search_results[i] : i \in {j \in 1..Len(search_results) :
                                    Qualifies(search_results[j], entries[item])}}

Removed == {items_to_remove[k] : k \in 1..Len(items_to_remove)}

Ommited == {items_ommited[k] : k \in 1..Len(items_ommited)}

\* C8: every replacement selected, in simple or manual mode, has a known
\* bitrate strictly greater than that of the item it replaces and an artist
\* (track artist, else album artist) that contains the item's artist
\* case-insensitively; a failing item without such a candidate is omitted,
\* selects nothing, and after the run is still in the playlist, to which
\* nothing was added.
C8_ReplacementQualifies ==
    /\ Len(items_to_add) = Len(items_to_remove)
    /\ \A k \in 1..Len(items_to_add) :
          Qualifies(items_to_add[k], entries[items_to_remove[k]])
    /\ (ItemFailed /\ Qualified = {}) =>
          /\ item \in Ommited
          /\ item \notin Removed
          /\ items_to_add = <<>>
          /\ pc = "done" => Target = items /\ Len(entries) = Len(items)

\* C8 witness: the run is over and the item was replaced although the search
\* had also found a track of higher bitrate by another artist and a track of
\* unknown bitrate by the same artist.
C8_Witness ==
    /\ pc = "done"
    /\ ~dry
    /\ ItemFailed
    /\ item \in Removed
    /\ \E i \in 1..Len(search_results) :
          /\ bitrate(search_results[i]) > bitrate(entries[item])
          /\ ~Qualifies(search_results[i], entries[item])
    /\ Len(Target) = 1
    /\ Target[1] \notin Removed

\* C8 second witness state: a failing item whose search found tracks, none of
\* which qualifies, has been omitted.
C8_WitnessOmitted ==
    /\ pc = "done"
    /\ ItemFailed
    /\ search_results # <<>>
    /\ Qualified = {}
    /\ item \in Ommited

\* The artist string normalized by sortable_term.
NormalizedArtist(r) == sortable_term(Str(artist(r))).s

\* C9: the ranked candidates are in descending bitrate order, and
\* candidates of equal bitrate are in ascending order of their normalized
\* artist string.
C9_RankedByNormalizedArtist ==
    \A i \in 1..(Len(replacements) - 1) :
        \/ bitrate(replacements[i]) > bitrate(replacements[i + 1])
        \/ /\ bitrate(replacements[i]) = bitrate(replacements[i + 1])
           /\ ~StrLess(NormalizedArtist(replacements[i + 1]),
                       NormalizedArtist(replacements[i]))

\* The part of C9 that is about the bitrate alone.
C9_DescendingBitrate ==
    \A i \in 1..(Len(replacements) - 1) :
        bitrate(replacements[i]) >= bitrate(replacements[i + 1])

\* C10: in simple mode a failing item with at least one qualifying candidate
\* is replaced by the first of the ranked candidates, which has the maximum
\* bitrate among the qualifying candidates; the item is not omitted and the
\* run is never ended by the prompt.
C10_SimpleTakesBest ==
    simple_mode =>
        /\ pc # "aborted"
        /\ (ItemFailed /\ Qualified # {}) =>
              /\ item \notin Ommited
              /\ \E k \in 1..Len(items_to_remove) :
                    /\ items_to_remove[k] = item
                    /\ items_to_add[k] = replacements[1]
                    /\ items_to_add[k] \in Qualified
                    /\ \A r \in Qualified : bitrate(items_to_add[k]) >= bitrate(r)

\* C10 witness: simple mode, the search found qualifying tracks of different
\* bitrate, the lower one first, and the run has put the replacement into
\* the playlist.
C10_Witness ==
    /\ simple_mode
    /\ ~dry
    /\ pc = "done"
    /\ ItemFailed
    /\ Len(search_results) >= 2
    /\ search_results[1] \in Qualified
    /\ \E r \in Qualified : bitrate(r) > bitrate(search_results[1])
    /\ item \in Removed
    /\ Len(Target) = 1
    /\ entries[Target[1]] = items_to_add[1]
    /\ bitrate(items_to_add[1]) > bitrate(search_results[1])

----------------------------------------------------------------------------
(***************************************************************************)
(* Properties of the manual selection.                                     *)
(***************************************************************************)

\* question() was called for the item examined last: manual mode, the item
\* failed and candidates were left.
AskedManual == ~simple_mode /\ ItemFailed /\ replacements # <<>>

\* The replacement paired with the item examined last (0 when there is none).
ReplacementOf(e) ==
    IF \E k \in 1..Len(items_to_remove) : items_to_remove[k] = e
    THEN items_to_add[CHOOSE k \in 1..Len(items_to_remove) : items_to_remove[k] = e]
    ELSE 0

\* The prompt was shown for the ranked candidates, "None" first.
C11_ChooserAsked ==
    AskedManual => choices = Choices(replacements, TRUE) /\ choices[1] = NoneChoice

\* A replaced item is replaced by the candidate at the position picked.
C11_SelectedTaken ==
    (AskedManual /\ choices = Choices(replacements, TRUE) /\ item \in Removed) =>
        /\ answer \in 2..(Len(replacements) + 1)
        /\ ReplacementOf(item) = replacements[answer - 1]

\* The answer "None" leaves the item neither removed nor replaced.
C11_NoneDefers ==
    (AskedManual /\ choices = Choices(replacements, TRUE) /\ answer = 1) =>
        /\ item \in Ommited
        /\ item \notin Removed

\* C11: in manual mode, for every failing item with a non-empty ranked list
\* (a list of one candidate and candidates with identical display strings
\* included) the chooser is asked with a "None" option, the item is replaced
\* only by the candidate the chooser picked, and on "None" the item is
\* neither removed nor replaced.
C11_ManualAsksChooser == C11_ChooserAsked /\ C11_SelectedTaken /\ C11_NoneDefers

\* The part of C11 that the code keeps: with two or more candidates whose
\* display strings differ, the prompt is shown and its answer is followed.
C11_DistinctCandidates ==
    (AskedManual /\ Len(replacements) >= 2
       /\ \A i, j \in 1..Len(replacements) :
             i # j => audio_to_str(replacements[i]) # audio_to_str(replacements[j])) =>
        /\ choices = Choices(replacements, TRUE)
        /\ C11_SelectedTaken
        /\ C11_NoneDefers

\* C12: an answer that is none of the offered choices ends the run with an
\* error; it is never taken as "None" or as a candidate.
C12_UnknownAnswerAborts ==
    (AskedManual /\ choices = Choices(replacements, TRUE) /\ answer = Len(choices) + 1) =>
        /\ pc \in {"aborted", "raised"}
        /\ item \notin Ommited
        /\ item \notin Removed

----------------------------------------------------------------------------
(***************************************************************************)
(* Frame properties of upgrade_playlist and sort_playlist.                 *)
(***************************************************************************)

\* C13: a dry upgrade run modifies nothing: no playlist is created, neither
\* removeItems nor addItems is reached, and the playlist returned is the
\* one given, with the items it had, whatever simple_mode and duplicate are
\* and whatever was selected.
C13_DryModifiesNothing ==
    dry =>
        /\ ~new_playlist.created
        /\ pc \notin {"remove", "add"}
        /\ Target = playlist
        /\ playlist = OriginalItems
        /\ pc # "upgrade" => playlist = items /\ Len(entries) = Len(items)

\* C13 witness: a dry run with duplicate set and manual selection has ended
\* with a replacement selected.
C13_Witness ==
    /\ dry
    /\ duplicate
    /\ ~simple_mode
    /\ pc = "done"
    /\ items_to_add # <<>>
    /\ items_to_remove # <<>>

\* The operation running is upgrade_playlist (sort_playlist never searches
\* the library).
Upgrading == library # {}

\* The items a finished upgrade leaves in the playlist it worked on: those
\* not removed, then a new item for every replacement.
UpgradedItems ==
    SelectSeq(items, LAMBDA e : e \notin Removed)
    \o [k \in 1..Len(items_to_add) |-> Len(items) + k]

\* C14: with duplicate set, sort_playlist and a non-dry upgrade_playlist
\* leave the selected playlist as it was: no moveItem, removeItems or
\* addItems is applied to it; the new order, the removals and the additions
\* are found only in the copy, which is the playlist returned.
C14_DuplicateLeavesOriginal ==
    duplicate =>
        /\ ~Upgrading =>
              /\ playlist = OriginalItems
              /\ pc # "moving"
              /\ previous_item = 0
              /\ pc = "done" => new_playlist.created /\ new_playlist.items = items
        /\ (Upgrading /\ ~dry) =>
              /\ pc = "upgrade" => playlist = OriginalItems
              /\ pc # "upgrade" =>
                    /\ playlist = items
                    /\ new_playlist.created
                    /\ Target = new_playlist.items
              /\ pc \in {"loop", "aborted", "remove"} => new_playlist.items = items
              /\ pc = "done" =>
                    /\ new_playlist.items = UpgradedItems
                    /\ \A k \in 1..Len(items_to_add) :
                          entries[Len(items) + k] = items_to_add[k]

\* C14 witness: an upgrade with duplicate set has ended; the copy holds the
\* replacement and the selected playlist still holds the replaced item.
C14_Witness ==
    /\ Upgrading
    /\ duplicate
    /\ ~dry
    /\ pc = "done"
    /\ items_to_add # <<>>
    /\ new_playlist.items # playlist
    /\ item \in Removed
    /\ playlist = <<item>>

\* C14, second witness state: a sort with duplicate set has ended and the
\* copy has another order than the selected playlist.
C14_WitnessSort ==
    /\ ~Upgrading
    /\ duplicate
    /\ pc = "done"
    /\ new_playlist.created
    /\ new_playlist.items # playlist

\* C15: sorting in place: when the loop of moveItem(item, after=previous_item)
\* calls is over (the first call with after = None), the order of the
\* playlist is the computed order, and the playlist holds the items it held
\* before; while the loop runs, the items already moved are at the front in
\* the computed order.
C15_MovesGiveComputedOrder ==
    ~Upgrading /\ ~duplicate =>
        /\ pc \in {"moving", "done"} =>
              /\ Len(playlist) = Len(OriginalItems)
              /\ {playlist[i] : i \in 1..Len(playlist)} = 1..Len(entries)
              /\ SubSeq(playlist, 1, NextIndex - 1) = SubSeq(items, 1, NextIndex - 1)
        /\ pc = "done" => playlist = items /\ ~new_playlist.created

\* C15 witness: a playlist of three or more items has been sorted in place
\* into an order that moves every item: the first item went to the end.
C15_Witness ==
    /\ ~Upgrading
    /\ ~duplicate
    /\ pc = "done"
    /\ Len(items) >= 3
    /\ items[1] = 2
    /\ items[2] = 3
    /\ items[Len(items)] = 1
    /\ playlist = items

----------------------------------------------------------------------------
(***************************************************************************)
(* Properties of a whole upgrade run.                                      *)
(***************************************************************************)

\* The items the loop has examined and decided on.
Processed == {items[i] : i \in 1..done}

Fails(e) == ~check_quality_requirements(config, Library[entries[e]].media)

\* C16: at every point of an upgrade run the remove-list and the add-list
\* have the same length and their i-th entries are a failing item and a
\* replacement chosen for it; every processed item that fails the quality
\* requirements is in exactly one of the remove-list and the omitted-list;
\* an item that meets them, or that the loop has not decided on, is in
\* neither; no item is listed twice.
C16_ListsPairedAndExclusive ==
    /\ Len(items_to_add) = Len(items_to_remove)
    /\ \A k \in 1..Len(items_to_remove) :
          /\ Fails(items_to_remove[k])
          /\ Qualifies(items_to_add[k], entries[items_to_remove[k]])
          /\ items_to_add[k] \in library
    /\ \A e \in Processed :
          /\ Fails(e) => (e \in Removed) # (e \in Ommited)
          /\ ~Fails(e) => e \notin Removed /\ e \notin Ommited
    /\ Removed \cup Ommited \subseteq Processed
    /\ Cardinality(Removed) = Len(items_to_remove)
    /\ Cardinality(Ommited) = Len(items_ommited)

\* C16 witness: a manual run over two or more items is over; one failing
\* item was replaced and another was left out by the answer "None".
C16_Witness ==
    /\ pc = "done"
    /\ ~simple_mode
    /\ Len(items) >= 2
    /\ items_to_remove # <<>>
    /\ items_ommited # <<>>
    /\ choices # <<>>
    /\ answer = 1

\* The chooser's last answer was "Abort".
Aborted == choices # <<>> /\ answer = Len(choices)

\* C17: nothing is removed from or added to the playlist before every item
\* is decided on; the removals are applied before the additions; and when
\* the chooser answers "Abort" the run ends there with the playlist's
\* contents as they were, whatever was decided for earlier items.
C17_AppliedAfterAllDecisions ==
    /\ pc \in {"loop", "aborted", "remove"} =>
          /\ Target = items
          /\ playlist = items
          /\ Len(entries) = Len(items)
    /\ pc \in {"remove", "add"} => done = Len(items) /\ ~dry
    /\ pc = "done" => done = Len(items)
    /\ pc = "add" =>
          /\ Target = removeItems(items, items_to_remove)
          /\ Len(entries) = Len(items)
    /\ pc = "done" /\ ~dry => Target = UpgradedItems
    /\ Aborted <=> pc = "aborted"

\* C17 witness: in a non-dry manual run a replacement was decided for one
\* item and the chooser aborted at a later one; the playlist is as it was.
C17_Witness ==
    /\ pc = "aborted"
    /\ ~dry
    /\ ~duplicate
    /\ items_to_add # <<>>
    /\ items_to_remove # <<>>
    /\ done < Len(items)
    /\ playlist = OriginalItems

\* The temporal part of C17: no step of the run is taken after "Abort".
C17_AbortEndsRun == [][pc # "aborted"]_vars

====
